---- MODULE Spec2Model ----
(***************************************************************************)
(* Model of the cpu-gpu-lp-benchmark scripts:                              *)
(*   scripts/parse_cuopt_results.py  (cuOpt log parser, batch loop)        *)
(*   scripts/gurobi_benchmark.py     (Gurobi runner, batch loop)           *)
(*   scripts/compare_results.py      (reconciliation of the two CSVs)      *)
(*   scripts/summary.py              (aggregate statistics)                *)
(*                                                                         *)
(* Spec        : the two producers (one script run per behaviour).         *)
(* SpecCompare : compare_results.py, then summary.py, on two result files  *)
(*               drawn from a bounded set of CSV contents.                 *)
(***************************************************************************)
EXTENDS Integers, Sequences, FiniteSets, TLC

VARIABLES prog, files, results, pc,
          cuopt_csv, gurobi_csv, comparison_csv, compare_out,
          summary_out, compare_stats, previous_csv

vars == <<prog, files, results, pc, cuopt_csv, gurobi_csv, comparison_csv,
          compare_out, summary_out, compare_stats, previous_csv>>

(***************************************************************************)
(* Bounds                                                                  *)
(***************************************************************************)
MaxFiles == 2       \* files handled by one producer run
MaxTime == 1        \* solve times in a result file range over 0..MaxTime
MaxTotalRows == 3   \* rows of the two result files together (any rows)
MaxModels == 2      \* models of two result files with one row per model

(***************************************************************************)
(* Values.  A Python / pandas scalar is a record with a tag:               *)
(*   none : Python None          nan : float NaN (pandas missing value)    *)
(*   num  : the float n/d        inf : float infinity                      *)
(*   int  : the integer n                                                  *)
(*   str  : the string s, a sequence of characters                         *)
(***************************************************************************)
None == [tag |-> "none", n |-> 0, d |-> 1, s |-> <<>>]
NaN == [tag |-> "nan", n |-> 0, d |-> 1, s |-> <<>>]
Inf == [tag |-> "inf", n |-> 0, d |-> 1, s |-> <<>>]
PyInt(x) == [tag |-> "int", n |-> x, d |-> 1, s |-> <<>>]
Num(x) == [tag |-> "num", n |-> x, d |-> 1, s |-> <<>>]
Rat(x, y) == [tag |-> "num", n |-> x, d |-> y, s |-> <<>>]
Str(t) == [tag |-> "str", n |-> 0, d |-> 1, s |-> t]

IsNotNone(v) == v.tag # "none"
IsNum(v) == v.tag \in {"num", "int"}

\* float comparison: False as soon as one side is NaN
Lt(a, b) == IsNum(a) /\ IsNum(b) /\ a.n * b.d < b.n * a.d
Gt(a, b) == Lt(b, a)

\* numpy float64 true division: NaN propagates, x/0 is inf (or nan for 0/0)
TrueDiv(a, b) ==
    IF ~IsNum(a) \/ ~IsNum(b) THEN NaN
    ELSE IF b.n = 0 THEN (IF a.n = 0 THEN NaN ELSE Inf)
    ELSE Rat(a.n * b.d, a.d * b.n)

(***************************************************************************)
(* Text.  Tokens cut out of a log are sequences of characters.             *)
(***************************************************************************)
sOptimal == <<"O", "p", "t", "i", "m", "a", "l">>
sTime == <<"T", "i", "m", "e">>
sInfeasible == <<"I", "n", "f", "e", "a", "s", "i", "b", "l", "e">>
sUnbounded == <<"U", "n", "b", "o", "u", "n", "d", "e", "d">>
sUnknown == <<"U", "n", "k", "n", "o", "w", "n">>
sLimit == <<"L", "i", "m", "i", "t">>
sTimeLimit == sTime \o sLimit
sTime_Limit == sTime \o <<" ">> \o sLimit
sIterationLimit == <<"I", "t", "e", "r">> \o sLimit
sFeasible == <<"F", "e", "a", "s", "i", "b", "l", "e">>

\* Python's `sub in text`
Contains(text, sub) ==
    \E k \in 0..(Len(text) - Len(sub)) :
        \A j \in 1..Len(sub) : text[k + j] = sub[j]

\* str.endswith / str[:-1] / str.replace(c, '')
EndsWith(text, c) == Len(text) > 0 /\ text[Len(text)] = c
DropLast(text) == SubSeq(text, 1, Len(text) - 1)
RemoveChar(text, c) == SelectSeq(text, LAMBDA x : x # c)

Digits == {"0", "1", "2", "3", "4", "5", "6", "7", "8", "9"}
DigitVal(c) == CHOOSE k \in 0..9 : ToString(k) = c

RECURSIVE DigitsVal(_)
DigitsVal(ds) ==
    IF Len(ds) = 0 THEN 0
    ELSE 10 * DigitsVal(DropLast(ds)) + DigitVal(ds[Len(ds)])

RECURSIVE Pow10(_)
Pow10(k) == IF k = 0 THEN 1 ELSE 10 * Pow10(k - 1)

\* the position of the first "." of text, 0 when it has none
DotPos(text) ==
    IF \E k \in 1..Len(text) : text[k] = "."
    THEN CHOOSE k \in 1..Len(text) :
            text[k] = "." /\ \A j \in 1..(k - 1) : text[j] # "."
    ELSE 0

\* float(text) for text over digits and ".": a value, or ValueError
ValueError == [tag |-> "ValueError", n |-> 0, d |-> 1, s |-> <<>>]
Float(text) ==
    LET p == DotPos(text)
        ip == IF p = 0 THEN text ELSE SubSeq(text, 1, p - 1)
        fp == IF p = 0 THEN <<>> ELSE SubSeq(text, p + 1, Len(text))
    IN  IF \/ Len(ip) + Len(fp) = 0
           \/ \E k \in 1..Len(ip) : ip[k] \notin Digits
           \/ \E k \in 1..Len(fp) : fp[k] \notin Digits
        THEN ValueError
        ELSE Rat(DigitsVal(ip) * Pow10(Len(fp)) + DigitsVal(fp), Pow10(Len(fp)))

\* str(int) and str(float) (shortest repr: "2.0", "1.5", "0.522")
RECURSIVE IntText(_)
IntText(k) ==
    IF k < 10 THEN <<ToString(k)>>
    ELSE IntText(k \div 10) \o <<ToString(k % 10)>>

\* the first k digits of r/d after the point, trailing zeros left out
RECURSIVE FracDigits(_, _, _)
FracDigits(r, d, k) ==
    IF r = 0 \/ k = 0 THEN <<>>
    ELSE <<ToString((r * 10) \div d)>> \o FracDigits((r * 10) % d, d, k - 1)

FloatText(v) ==
    LET fd == FracDigits(v.n % v.d, v.d, 16)
    IN  IntText(v.n \div v.d) \o <<".">> \o (IF fd = <<>> THEN <<"0">> ELSE fd)

(***************************************************************************)
(* parse_cuopt_results.py                                                  *)
(***************************************************************************)
sERROR == <<"E", "R", "R", "O", "R">>
\* message texts are never inspected: each is kept as one chunk
sNoLines == <<"No concurrent and status lines found in log">>
sIOError == <<"[Errno 13] Permission denied">>
sFloatError == <<"could not convert string to float">>

GRB_OPTIMAL == 2
GRB_INFEASIBLE == 3
GRB_UNBOUNDED == 5
GRB_TIME_LIMIT == 9
OtherStatus == 11

\* status_map.get(status, 11)
status_map(status) ==
    IF status = sOptimal THEN GRB_OPTIMAL
    ELSE IF status = sTime THEN GRB_TIME_LIMIT
    ELSE IF status = sInfeasible THEN GRB_INFEASIBLE
    ELSE IF status = sUnbounded THEN GRB_UNBOUNDED
    ELSE IF status = sUnknown THEN OtherStatus
    ELSE OtherStatus

\* the result dict as first built by either producer
NewResult(stem) ==
    [model_name |-> stem, solve_time |-> None, status |-> None,
     objective |-> None, error |-> None]

\* (mutant) the else branch without the status assignment
MissingLines_NoStatus(result) ==
    [result EXCEPT !.error = Str(sNoLines)]

\* the else branch: a required line is missing
MissingLines(result) ==
    [result EXCEPT !.status = Str(sERROR), !.error = Str(sNoLines)]

\* the except branch of parse_cuopt_log
ParseExcept(result, msg) ==
    [result EXCEPT !.status = Str(sERROR), !.error = Str(msg)]

\* "Handle 'Time Limit' vs just 'Time'", then the lookup
NormalizeStatus(status) ==
    LET st == IF Contains(status, sLimit) THEN sTime_Limit ELSE status
    IN  status_map(st)

\* A log file is described by what the two regular expressions find in it:
\*   timing     : <<>> or <<group 2 of the "Concurrent time" match>>
\*   statusline : <<>> or <<[status, objective] of the "Status:" match>>
parse_cuopt_log(log) ==
    LET result == NewResult(log.stem)
    IN  IF ~log.readable THEN ParseExcept(result, sIOError)
        ELSE IF log.timing # <<>> /\ log.statusline # <<>>
        THEN LET tts == log.timing[1]
                 stripped == IF EndsWith(tts, "s") THEN DropLast(tts) ELSE tts
                 clean == RemoveChar(stripped, ",")
                 t == Float(clean)
             IN  IF t = ValueError THEN ParseExcept(result, sFloatError)
                 ELSE [result EXCEPT
                           !.solve_time = t,
                           !.status = PyInt(NormalizeStatus(log.statusline[1].status)),
                           !.objective = Str(log.statusline[1].objective)]
        ELSE MissingLines(result)

(***************************************************************************)
(* gurobi_benchmark.py                                                     *)
(***************************************************************************)
sNA == <<"N", "/", "A">>
sGurobiError == <<"GurobiError">>

\* (mutant) the except branch without the status assignment
GurobiExcept_KeepStatus(result, msg) ==
    [result EXCEPT !.error = Str(msg)]

\* the except branch of solve_mps_with_gurobi
GurobiExcept(result, msg) ==
    [result EXCEPT !.error = Str(msg), !.status = Str(sERROR)]

\* An MPS file is described by what Gurobi does with it:
\*   readOk, optimizeOk : gp.read / model.optimize return normally
\*   Status, Runtime    : model.Status, model.Runtime after optimize
\*   hasObjVal, ObjVal  : reading model.ObjVal succeeds, and its value
solve_mps_with_gurobi(mps) ==
    LET result == NewResult(mps.stem)
    IN  IF ~mps.readOk \/ ~mps.optimizeOk THEN GurobiExcept(result, sGurobiError)
        ELSE LET timed == [result EXCEPT !.solve_time = mps.Runtime,
                                         !.status = PyInt(mps.Status)]
             IN  IF mps.Status = GRB_OPTIMAL \/ mps.Status = GRB_TIME_LIMIT
                 THEN IF mps.hasObjVal
                      THEN [timed EXCEPT !.objective = mps.ObjVal]
                      ELSE GurobiExcept(timed, sGurobiError)
                 ELSE [timed EXCEPT !.objective = Str(sNA)]

(***************************************************************************)
(* csv.DictWriter: None is written as the empty text, a str as itself,     *)
(* a number as str(number)                                                 *)
(***************************************************************************)
CellText(v) ==
    IF v.tag = "none" THEN <<>>
    ELSE IF v.tag = "str" THEN v.s
    ELSE IF v.tag = "int" THEN IntText(v.n)
    ELSE FloatText(v)

\* writer.writerows(results): one row of texts per result
DictWriterRow(r) ==
    [model_name |-> r.model_name, solve_time |-> CellText(r.solve_time),
     status |-> CellText(r.status), objective |-> CellText(r.objective),
     error |-> CellText(r.error)]

\* a file: whether it exists, whether it has a header line, its data rows
WriteCsv(rs) ==
    [exists |-> TRUE, header |-> TRUE,
     rows |-> [k \in 1..Len(rs) |-> DictWriterRow(rs[k])]]
NoFile == [exists |-> FALSE, header |-> FALSE, rows |-> <<>>]

(***************************************************************************)
(* Inputs of the producers                                                 *)
(***************************************************************************)
Stem(k) == <<"p", ToString(k)>>

TimeTokens ==
    { <<"2", "s">>, <<"1", ",", "0", "0", "0", ".", "5", "s">>,
      <<"0", ".", "5", "2", "2", "s">>, <<"1", ".", "2", ".", "3", "s">>,
      <<".", "s">> }
StatusTokens ==
    { sOptimal, sTime, sTimeLimit, sIterationLimit, sInfeasible, sUnbounded,
      sUnknown, sFeasible }
sObjective == <<"2", ".", "5">>

LogContents ==
    { [readable |-> FALSE, timing |-> <<>>, statusline |-> <<>>] }
    \cup { [readable |-> TRUE, timing |-> tm, statusline |-> sl] :
             tm \in {<<>>} \cup { <<t>> : t \in TimeTokens },
             sl \in {<<>>} \cup { <<[status |-> st, objective |-> sObjective]>> :
                                    st \in StatusTokens } }

MpsContents ==
    { [readOk |-> FALSE, optimizeOk |-> FALSE, Status |-> 1, Runtime |-> Num(0),
       hasObjVal |-> FALSE, ObjVal |-> Num(0)],
      [readOk |-> TRUE, optimizeOk |-> FALSE, Status |-> 1, Runtime |-> Num(0),
       hasObjVal |-> FALSE, ObjVal |-> Num(0)] }
    \cup { [readOk |-> TRUE, optimizeOk |-> TRUE, Status |-> st, Runtime |-> Num(rt),
            hasObjVal |-> (ho \/ st = GRB_OPTIMAL), ObjVal |-> Num(7)] :
             st \in {GRB_OPTIMAL, GRB_INFEASIBLE, GRB_UNBOUNDED, GRB_TIME_LIMIT},
             rt \in 0..1, ho \in BOOLEAN }

LogFile(k, c) ==
    [stem |-> Stem(k), readable |-> c.readable, timing |-> c.timing,
     statusline |-> c.statusline]
MpsFile(k, c) ==
    [stem |-> Stem(k), readOk |-> c.readOk, optimizeOk |-> c.optimizeOk,
     Status |-> c.Status, Runtime |-> c.Runtime, hasObjVal |-> c.hasObjVal,
     ObjVal |-> c.ObjVal]


(***************************************************************************)
(* The producers' batch loops (main of each script)                        *)
(***************************************************************************)
NoSummary ==
    [state |-> "none", both_solved |-> 0, cuopt_faster |-> 0,
     gurobi_faster |-> 0, ties |-> 0, avg_speedup |-> NaN,
     median_speedup |-> NaN, cuopt_success_rate |-> None,
     gurobi_success_rate |-> None]

\* nothing printed by the "Status Analysis" block
NoStats ==
    [cuopt_optimal |-> None, cuopt_errors |-> None, cuopt_other |-> None,
     gurobi_optimal |-> None, gurobi_time_limit |-> None,
     gurobi_errors |-> None, gurobi_other |-> None]

Init ==
    /\ prog \in {"parse_cuopt_results", "gurobi_benchmark"}
    /\ \E len \in 0..MaxFiles :
          \* glob(): up to MaxFiles files with distinct stems
          IF prog = "parse_cuopt_results"
          THEN \E c \in [1..len -> LogContents] :
                  files = [k \in 1..len |-> LogFile(k, c[k])]
          ELSE \E c \in [1..len -> MpsContents] :
                  files = [k \in 1..len |-> MpsFile(k, c[k])]
    /\ results = <<>>
    /\ pc = "main"
    /\ cuopt_csv = NoFile
    /\ gurobi_csv = NoFile
    /\ comparison_csv = NoFile
    /\ compare_out = "none"
    /\ summary_out = NoSummary
    /\ compare_stats = NoStats
    /\ previous_csv = NoFile

\* `if not log_files: return`
ParseNoFiles ==
    /\ prog = "parse_cuopt_results" /\ pc = "main" /\ files = <<>>
    /\ pc' = "done"
    /\ UNCHANGED <<prog, files, results, cuopt_csv, gurobi_csv, comparison_csv,
                   compare_out, summary_out, compare_stats, previous_csv>>

\* one iteration of `for i, log_file in enumerate(log_files, 1)`
ParseLoop ==
    /\ prog = "parse_cuopt_results" /\ pc = "main"
    /\ Len(results) < Len(files)
    /\ results' = Append(results, parse_cuopt_log(files[Len(results) + 1]))
    /\ UNCHANGED <<prog, files, pc, cuopt_csv, gurobi_csv, comparison_csv,
                   compare_out, summary_out, compare_stats, previous_csv>>

\* after the loop: write cuopt_results.csv
ParseSave ==
    /\ prog = "parse_cuopt_results" /\ pc = "main"
    /\ files # <<>> /\ Len(results) = Len(files)
    /\ cuopt_csv' = WriteCsv(results)
    /\ pc' = "done"
    /\ UNCHANGED <<prog, files, results, gurobi_csv, comparison_csv,
                   compare_out, summary_out, compare_stats, previous_csv>>

\* `if not mps_files: return`
GurobiNoFiles ==
    /\ prog = "gurobi_benchmark" /\ pc = "main" /\ files = <<>>
    /\ pc' = "done"
    /\ UNCHANGED <<prog, files, results, cuopt_csv, gurobi_csv, comparison_csv,
                   compare_out, summary_out, compare_stats, previous_csv>>

\* one iteration of `for i, mps_file in enumerate(mps_files, 1)`
GurobiLoop ==
    /\ prog = "gurobi_benchmark" /\ pc = "main"
    /\ Len(results) < Len(files)
    /\ results' = Append(results, solve_mps_with_gurobi(files[Len(results) + 1]))
    /\ UNCHANGED <<prog, files, pc, cuopt_csv, gurobi_csv, comparison_csv,
                   compare_out, summary_out, compare_stats, previous_csv>>

\* after the loop: write gurobi_results.csv
GurobiSave ==
    /\ prog = "gurobi_benchmark" /\ pc = "main"
    /\ files # <<>> /\ Len(results) = Len(files)
    /\ gurobi_csv' = WriteCsv(results)
    /\ pc' = "done"
    /\ UNCHANGED <<prog, files, results, cuopt_csv, comparison_csv,
                   compare_out, summary_out, compare_stats, previous_csv>>

Next ==
    \/ ParseNoFiles \/ ParseLoop \/ ParseSave
    \/ GurobiNoFiles \/ GurobiLoop \/ GurobiSave

Spec == Init /\ [][Next]_vars

(***************************************************************************)
(* pandas.read_csv / DataFrame.to_csv                                      *)
(***************************************************************************)
sNaN == <<"N", "a", "N">>
sNan == <<"n", "a", "n">>
sNone == <<"N", "o", "n", "e">>
\* the default na_values that can occur here
NAValues == { <<>>, sNA, sNaN, sNan, sNone }

\* one cell on its own: missing, a number, or a string
ParseCell(text) ==
    IF text \in NAValues THEN NaN
    ELSE LET f == Float(text)
         IN  IF f = ValueError THEN Str(text)
             ELSE IF DotPos(text) = 0 THEN PyInt(f.n) ELSE f

\* a column has dtype object when it is empty or holds a string
IsObjectColumn(rows, col) ==
    rows = <<>> \/ \E k \in 1..Len(rows) : ParseCell(rows[k][col]).tag = "str"

\* the value of row k in column col: in an object column numbers stay text
ColumnValue(rows, col, k) ==
    LET v == ParseCell(rows[k][col])
    IN  IF IsObjectColumn(rows, col) /\ v.tag # "nan" THEN Str(rows[k][col]) ELSE v

read_csv(file) ==
    [k \in 1..Len(file.rows) |->
        [col \in DOMAIN file.rows[k] |-> ColumnValue(file.rows, col, k)]]

\* pd.to_numeric(column, errors='coerce')
to_numeric(v) ==
    IF v.tag = "str"
    THEN (IF Float(v.s) = ValueError THEN NaN ELSE Float(v.s))
    ELSE v

\* column == k for an integer k: False for text and for NaN
NumEq(v, k) == IsNum(v) /\ v.n = k * v.d

\* count / len(df) * 100 on numpy numbers: 0/0 is nan, no exception
Percent(count, total) ==
    LET q == TrueDiv(PyInt(count), PyInt(total))
    IN  IF IsNum(q) THEN Rat(q.n * 100, q.d) ELSE q

\* to_csv: None and NaN are written as the empty text
ToCsvCell(v) ==
    IF v.tag \in {"none", "nan"} THEN <<>>
    ELSE IF v.tag = "str" THEN v.s
    ELSE IF v.tag = "inf" THEN <<"i", "n", "f">>
    ELSE IF v.tag = "int" THEN IntText(v.n)
    ELSE FloatText(v)

(***************************************************************************)
(* compare_results.py                                                      *)
(***************************************************************************)
sCuOpt == <<"c", "u", "O", "p", "t">>
sGurobi == <<"G", "u", "r", "o", "b", "i">>
sTie == <<"T", "i", "e">>

ModelNames(df) == { df[k].model_name : k \in 1..Len(df) }

\* set(cuopt_df['model_name']) & set(gurobi_df['model_name'])
common_models(cuopt_df, gurobi_df) == ModelNames(cuopt_df) \cap ModelNames(gurobi_df)

\* df[df['model_name'] == model].iloc[0]
Iloc0(df, model) ==
    df[CHOOSE k \in 1..Len(df) :
          /\ df[k].model_name = model
          /\ \A j \in 1..(k - 1) : df[j].model_name # model]

\* (mutant) the guard lets a zero cuOpt time through
speedup_NoZeroGuard(cuopt_row, gurobi_row) ==
    IF /\ IsNotNone(cuopt_row.solve_time)
       /\ IsNotNone(gurobi_row.solve_time)
       /\ ~Lt(cuopt_row.solve_time, Num(0))
    THEN TrueDiv(gurobi_row.solve_time, cuopt_row.solve_time)
    ELSE None

\* the 'speedup' entry of a comparison record
speedup(cuopt_row, gurobi_row) ==
    IF /\ IsNotNone(cuopt_row.solve_time)
       /\ IsNotNone(gurobi_row.solve_time)
       /\ Gt(cuopt_row.solve_time, Num(0))
    THEN TrueDiv(gurobi_row.solve_time, cuopt_row.solve_time)
    ELSE None

\* (mutant) the two time comparisons exchanged
winner_Swapped(cuopt_row, gurobi_row) ==
    LET both == IsNotNone(cuopt_row.solve_time) /\ IsNotNone(gurobi_row.solve_time)
    IN  IF both /\ Lt(gurobi_row.solve_time, cuopt_row.solve_time) THEN Str(sCuOpt)
        ELSE IF both /\ Lt(cuopt_row.solve_time, gurobi_row.solve_time) THEN Str(sGurobi)
        ELSE IF both THEN Str(sTie)
        ELSE Str(sNA)

\* the 'winner' entry of a comparison record
winner(cuopt_row, gurobi_row) ==
    LET both == IsNotNone(cuopt_row.solve_time) /\ IsNotNone(gurobi_row.solve_time)
    IN  IF both /\ Lt(cuopt_row.solve_time, gurobi_row.solve_time) THEN Str(sCuOpt)
        ELSE IF both /\ Lt(gurobi_row.solve_time, cuopt_row.solve_time) THEN Str(sGurobi)
        ELSE IF both THEN Str(sTie)
        ELSE Str(sNA)

\* one dict of comparison_data
ComparisonRecord(model, cuopt_row, gurobi_row) ==
    [model_name |-> model,
     cuopt_solve_time |-> cuopt_row.solve_time,
     cuopt_status |-> cuopt_row.status,
     cuopt_objective |-> cuopt_row.objective,
     cuopt_error |-> cuopt_row.error,
     gurobi_solve_time |-> gurobi_row.solve_time,
     gurobi_status |-> gurobi_row.status,
     gurobi_objective |-> gurobi_row.objective,
     gurobi_error |-> gurobi_row.error,
     speedup |-> speedup(cuopt_row, gurobi_row),
     winner |-> winner(cuopt_row, gurobi_row)]

\* comparison_data, the models taken in the order `order`
comparison_data(cuopt_df, gurobi_df, order) ==
    [k \in 1..Len(order) |->
        ComparisonRecord(order[k], Iloc0(cuopt_df, order[k]),
                         Iloc0(gurobi_df, order[k]))]

\* pd.DataFrame(comparison_data).to_csv(...): no column at all for no record
ComparisonToCsv(data) ==
    [exists |-> TRUE, header |-> data # <<>>,
     rows |-> [k \in 1..Len(data) |->
                 [col \in DOMAIN data[k] |-> ToCsvCell(data[k][col])]]]

\* the iteration orders of a Python set of strings
Orders(S) ==
    { o \in [1..Cardinality(S) -> S] : \A a \in S : \E k \in DOMAIN o : o[k] = a }

\* Series.str raises AttributeError on a column that is not of dtype object
StrAccessorOk(file) == IsObjectColumn(file.rows, "status")

\* (status_num == k).sum()
StatusCount(df, k) ==
    Len(SelectSeq(df, LAMBDA r : NumEq(to_numeric(r.status), k)))

\* status.str.contains('ERROR').sum(): a missing status counts as nothing
ErrorCount(df) ==
    Len(SelectSeq(df, LAMBDA r : r.status.tag = "str" /\ Contains(r.status.s, sERROR)))

\* the percentages of the "Status Analysis" block
StatusAnalysis(cuopt_df, gurobi_df) ==
    LET cuopt_optimal == StatusCount(cuopt_df, GRB_OPTIMAL)
        cuopt_errors == ErrorCount(cuopt_df)
        cuopt_other == Len(cuopt_df) - cuopt_optimal - cuopt_errors
        gurobi_optimal == StatusCount(gurobi_df, GRB_OPTIMAL)
        gurobi_time_limit == StatusCount(gurobi_df, GRB_TIME_LIMIT)
        gurobi_errors == ErrorCount(gurobi_df)
        gurobi_other == Len(gurobi_df) - gurobi_optimal - gurobi_time_limit
                          - gurobi_errors
    IN  [cuopt_optimal |-> Percent(cuopt_optimal, Len(cuopt_df)),
         cuopt_errors |-> Percent(cuopt_errors, Len(cuopt_df)),
         cuopt_other |-> Percent(cuopt_other, Len(cuopt_df)),
         gurobi_optimal |-> Percent(gurobi_optimal, Len(gurobi_df)),
         gurobi_time_limit |-> Percent(gurobi_time_limit, Len(gurobi_df)),
         gurobi_errors |-> Percent(gurobi_errors, Len(gurobi_df)),
         gurobi_other |-> Percent(gurobi_other, Len(gurobi_df))]

\* what the block has printed when line `stop` raises: the cuOpt lines are
\* 45-47, the Gurobi lines 57-60
StatsPrintedBefore(stats, stop) ==
    [cuopt_optimal |-> IF stop > 45 THEN stats.cuopt_optimal ELSE None,
     cuopt_errors |-> IF stop > 46 THEN stats.cuopt_errors ELSE None,
     cuopt_other |-> IF stop > 47 THEN stats.cuopt_other ELSE None,
     gurobi_optimal |-> IF stop > 57 THEN stats.gurobi_optimal ELSE None,
     gurobi_time_limit |-> IF stop > 58 THEN stats.gurobi_time_limit ELSE None,
     gurobi_errors |-> IF stop > 59 THEN stats.gurobi_errors ELSE None,
     gurobi_other |-> IF stop > 60 THEN stats.gurobi_other ELSE None]

(***************************************************************************)
(* summary.py                                                              *)
(***************************************************************************)
Add(a, b) == Rat(a.n * b.d + b.n * a.d, a.d * b.d)

RECURSIVE SumSeq(_)
SumSeq(vs) == IF vs = <<>> THEN Num(0) ELSE Add(vs[1], SumSeq(Tail(vs)))

\* Series.mean(): missing values skipped, NaN when nothing is left
Mean(vs) ==
    LET xs == SelectSeq(vs, IsNum)
    IN  IF xs = <<>> THEN NaN
        ELSE LET t == SumSeq(xs) IN Rat(t.n, t.d * Len(xs))

Sorted(xs) ==
    LET perm == CHOOSE q \in [1..Len(xs) -> 1..Len(xs)] :
                    /\ \A i, j \in 1..Len(xs) : i # j => q[i] # q[j]
                    /\ \A i \in 1..(Len(xs) - 1) : ~Lt(xs[q[i + 1]], xs[q[i]])
    IN  [k \in 1..Len(xs) |-> xs[perm[k]]]

\* Series.median(): missing values skipped, NaN when nothing is left
Median(vs) ==
    LET xs == Sorted(SelectSeq(vs, IsNum))
        m == Len(xs)
    IN  IF m = 0 THEN NaN
        ELSE IF m % 2 = 1 THEN xs[(m + 1) \div 2]
        ELSE LET t == Add(xs[m \div 2], xs[m \div 2 + 1]) IN Rat(t.n, t.d * 2)

\* (df['status'] == 2).sum() / len(df) * 100
success_rate(df) ==
    Percent(Len(SelectSeq(df, LAMBDA r : NumEq(r.status, GRB_OPTIMAL))), Len(df))

\* comparison_df[(winner == 'cuOpt') | (winner == 'Gurobi')]
both_solved(comparison_df) ==
    SelectSeq(comparison_df,
              LAMBDA r : r.winner = Str(sCuOpt) \/ r.winner = Str(sGurobi))

\* the figures of the "Performance Comparison" block
PerformanceStats(comparison_df) ==
    LET bs == both_solved(comparison_df)
        sp == [k \in 1..Len(bs) |-> bs[k].speedup]
    IN  [state |-> "printed",
         both_solved |-> Len(bs),
         cuopt_faster |-> Len(SelectSeq(bs, LAMBDA r : r.winner = Str(sCuOpt))),
         gurobi_faster |-> Len(SelectSeq(bs, LAMBDA r : r.winner = Str(sGurobi))),
         ties |-> Len(SelectSeq(bs, LAMBDA r : r.winner = Str(sTie))),
         avg_speedup |-> Mean(sp),
         median_speedup |-> Median(sp)]

(***************************************************************************)
(* Result files for the reconciliation                                     *)
(***************************************************************************)
ModelNameSet == { Stem(1), Stem(2) }
\* the rows the producers write: an optimal row with any time, a time-limit
\* row, an ERROR row without a time (both producers) and an ERROR row with a
\* time (Gurobi, when reading ObjVal fails after optimize)
RowShapes ==
    { [solve_time |-> FloatText(Num(t)), status |-> IntText(GRB_OPTIMAL)] :
        t \in 0..MaxTime }
    \cup { [solve_time |-> FloatText(Num(MaxTime)), status |-> IntText(GRB_TIME_LIMIT)],
           [solve_time |-> <<>>, status |-> sERROR],
           [solve_time |-> FloatText(Num(0)), status |-> sERROR] }

ResultRow(nm, sh) ==
    [model_name |-> nm, solve_time |-> sh.solve_time, status |-> sh.status,
     objective |-> (IF sh.status = sERROR THEN <<>> ELSE sObjective),
     error |-> (IF sh.status = sERROR THEN sGurobiError ELSE <<>>)]

ResultRows == { ResultRow(nm, sh) : nm \in ModelNameSet, sh \in RowShapes }

CsvFile(rs) == [exists |-> TRUE, header |-> TRUE, rows |-> rs]

AlignedRows(shapes) == [k \in 1..Len(shapes) |-> ResultRow(Stem(k), shapes[k])]

InitCompare ==
    /\ prog = "compare_results"
    /\ files = <<>>
    /\ results = <<>>
    /\ pc = "main"
    /\ \/ \* any rows, in any order, duplicates included
          \E cl \in 0..MaxTotalRows : \E gl \in 0..(MaxTotalRows - cl) :
             \E cr \in [1..cl -> ResultRows] : \E gr \in [1..gl -> ResultRows] :
                cuopt_csv = CsvFile(cr) /\ gurobi_csv = CsvFile(gr)
       \/ \* a missing file
          \E len \in 0..(MaxTotalRows - 1) : \E rs \in [1..len -> ResultRows] :
             \/ cuopt_csv = NoFile /\ gurobi_csv = CsvFile(rs)
             \/ cuopt_csv = CsvFile(rs) /\ gurobi_csv = NoFile
             \/ cuopt_csv = NoFile /\ gurobi_csv = NoFile
       \/ \* one row per model, the same models in both files
          \E len \in 1..MaxModels :
             \E cs \in [1..len -> RowShapes] : \E gs \in [1..len -> RowShapes] :
                cuopt_csv = CsvFile(AlignedRows(cs)) /\ gurobi_csv = CsvFile(AlignedRows(gs))
    /\ comparison_csv = NoFile
    /\ compare_out = "none"
    /\ summary_out = NoSummary
    /\ compare_stats = NoStats
    /\ previous_csv = NoFile

\* (mutant) a missing file is read as an empty dataset
ReadFails_Never(cuopt_file, gurobi_file) == FALSE

\* pd.read_csv of either file raises FileNotFoundError
ReadFails(cuopt_file, gurobi_file) == ~cuopt_file.exists \/ ~gurobi_file.exists

\* analyze_comparison() under the try/except of __main__
AnalyzeComparison ==
    /\ prog = "compare_results" /\ compare_out = "none"
    /\ IF ReadFails(cuopt_csv, gurobi_csv)
       THEN \* pd.read_csv raises FileNotFoundError (line 24)
            /\ compare_out' = "FileNotFoundError"
            /\ UNCHANGED <<comparison_csv, compare_stats>>
       ELSE LET stats == StatusAnalysis(read_csv(cuopt_csv), read_csv(gurobi_csv))
            IN
            IF ~StrAccessorOk(cuopt_csv) \/ ~StrAccessorOk(gurobi_csv)
            THEN \* .str.contains raises AttributeError (lines 41, 53)
                 /\ compare_out' = "Unexpected error"
                 /\ compare_stats' =
                      StatsPrintedBefore(stats, IF StrAccessorOk(cuopt_csv)
                                                THEN 53 ELSE 41)
                 /\ UNCHANGED comparison_csv
            ELSE \/ \* an empty result file: len(df) = 0 divides a count that
                    \* is a Python int in some pandas versions (lines 46, 59)
                    /\ cuopt_csv.rows = <<>> \/ gurobi_csv.rows = <<>>
                    /\ compare_out' = "Unexpected error"
                    /\ compare_stats' =
                         StatsPrintedBefore(stats, IF cuopt_csv.rows = <<>>
                                                   THEN 46 ELSE 59)
                    /\ UNCHANGED comparison_csv
                 \/ \E order \in Orders(common_models(read_csv(cuopt_csv),
                                                       read_csv(gurobi_csv))) :
                      /\ comparison_csv' =
                           ComparisonToCsv(comparison_data(read_csv(cuopt_csv),
                                                           read_csv(gurobi_csv), order))
                      /\ compare_stats' = stats
                      /\ compare_out' = "ok"
    /\ UNCHANGED <<prog, files, results, pc, cuopt_csv, gurobi_csv, summary_out,
                   previous_csv>>

\* main() of summary.py
SummaryMain ==
    /\ prog = "compare_results" /\ summary_out.state = "none"
    /\ compare_out # "none"
    /\ IF ~cuopt_csv.exists \/ ~gurobi_csv.exists \/ ~comparison_csv.exists
       THEN \* pd.read_csv raises FileNotFoundError (lines 11-13)
            summary_out' = [NoSummary EXCEPT !.state = "FileNotFoundError"]
       ELSE IF ~comparison_csv.header
       THEN \* a comparison file without columns cannot be read
            summary_out' = [NoSummary EXCEPT !.state = "crash"]
       ELSE LET stats == PerformanceStats(read_csv(comparison_csv))
                printed == IF stats.both_solved > 0 THEN stats
                           ELSE [NoSummary EXCEPT !.state = "skipped"]
            IN  summary_out' =
                  [f \in DOMAIN NoSummary |->
                     IF f = "cuopt_success_rate"
                     THEN success_rate(read_csv(cuopt_csv))
                     ELSE IF f = "gurobi_success_rate"
                     THEN success_rate(read_csv(gurobi_csv))
                     ELSE printed[f]]
    /\ UNCHANGED <<prog, files, results, pc, cuopt_csv, gurobi_csv,
                   comparison_csv, compare_out, compare_stats, previous_csv>>

\* analyze_comparison() run once more on the same two result files; the
\* earlier output is kept in previous_csv before to_csv replaces the file.
\* The loop of line 149 walks a set of strings, whose iteration order is
\* not fixed from one interpreter run to the next.
AnalyzeComparisonAgain ==
    /\ prog = "compare_results" /\ compare_out = "ok"
    /\ ~previous_csv.exists
    /\ \E order \in Orders(common_models(read_csv(cuopt_csv), read_csv(gurobi_csv))) :
         comparison_csv' =
           ComparisonToCsv(comparison_data(read_csv(cuopt_csv),
                                           read_csv(gurobi_csv), order))
    /\ previous_csv' = comparison_csv
    /\ UNCHANGED <<prog, files, results, pc, cuopt_csv, gurobi_csv, compare_out,
                   summary_out, compare_stats>>

NextCompare == AnalyzeComparison \/ SummaryMain \/ AnalyzeComparisonAgain

SpecCompare == InitCompare /\ [][NextCompare]_vars

(***************************************************************************)
(* Properties of the producers (Spec)                                      *)
(***************************************************************************)
ParseRun == prog = "parse_cuopt_results"
GurobiRun == prog = "gurobi_benchmark"

\* C5: for every log that contains both required lines and whose status
\* token contains "Limit", parse_cuopt_log yields the TimeLimit code 9.
C5_LimitTokenIsTimeLimit ==
    ParseRun =>
        \A k \in 1..Len(results) :
            ( /\ files[k].readable
              /\ files[k].timing # <<>> /\ files[k].statusline # <<>>
              /\ results[k].solve_time # None
              /\ Contains(files[k].statusline[1].status, sLimit) )
            => results[k].status = PyInt(GRB_TIME_LIMIT)

\* time tokens the timing pattern accepts and float() rejects
MalformedTimeTokens == { <<"1", ".", "2", ".", "3", "s">>, <<".", "s">> }

BadLog(log) ==
    \/ ~log.readable
    \/ log.timing = <<>>
    \/ log.statusline = <<>>
    \/ log.timing[1] \in MalformedTimeTokens

ErrorShape(r) ==
    /\ r.status = Str(sERROR)
    /\ r.solve_time = None
    /\ r.objective = None
    /\ r.error.tag = "str"

\* C7: local recovery in the log-parsing batch: the loop ends with exactly
\* one record per log file, in order; a log without the timing or the status line, or
\* whose parsing raises, yields an ERROR record without solve_time and
\* objective and with the error set, and the logs after it are still parsed.
C7_LocalRecovery ==
    ParseRun =>
        /\ Len(results) <= Len(files)
        /\ \A k \in 1..Len(results) :
              /\ results[k].model_name = files[k].stem
              /\ BadLog(files[k]) => ErrorShape(results[k])
              /\ ~BadLog(files[k]) => results[k].status.tag = "int"
        /\ pc = "done" => Len(results) = Len(files)

C7_Witness ==
    /\ ParseRun /\ pc = "done" /\ Len(files) = 2 /\ Len(results) = 2
    /\ BadLog(files[1]) /\ ErrorShape(results[1])
    /\ ~BadLog(files[2]) /\ results[2].solve_time # None

\* C8: for every result record of either producer, on every path, the
\* error field is set iff status is the marker "ERROR".
C8_ErrorIffStatusError ==
    \A k \in 1..Len(results) :
        (results[k].error # None) <=> (results[k].status = Str(sERROR))

C8_Witness ==
    /\ GurobiRun /\ Len(results) = 2
    /\ results[1].status = Str(sERROR) /\ results[1].solve_time # None
    /\ results[1].error # None
    /\ results[2].status = PyInt(GRB_OPTIMAL) /\ results[2].error = None

(***************************************************************************)
(* Properties of the reconciliation and the summary (SpecCompare)          *)
(***************************************************************************)
CsvNames(file) == { file.rows[k].model_name : k \in 1..Len(file.rows) }
Written == compare_out = "ok"
CmpRows == comparison_csv.rows
TimePresent(cell) == cell # <<>>

\* C1: the comparison holds exactly one record per model_name of the union
\* of the two datasets' names, without duplicates.
C1_FullOuterJoin ==
    Written =>
        /\ CsvNames(comparison_csv) = CsvNames(cuopt_csv) \cup CsvNames(gurobi_csv)
        /\ Len(CmpRows) = Cardinality(CsvNames(cuopt_csv) \cup CsvNames(gurobi_csv))

\* C2: a reconciled record with an absent solve_time has winner 'N/A',
\* never 'cuOpt', 'Gurobi' or 'Tie'.
C2_AbsentTimeUnknown ==
    Written =>
        \A k \in 1..Len(CmpRows) :
            (~TimePresent(CmpRows[k].cuopt_solve_time)
                \/ ~TimePresent(CmpRows[k].gurobi_solve_time))
            => CmpRows[k].winner = sNA

\* C3: when both solve_times are present, winner is 'cuOpt' iff the cuOpt
\* time is smaller, 'Gurobi' iff the Gurobi time is smaller, 'Tie' iff they
\* are equal, whatever the two status values are.
C3_WinnerByTime ==
    Written =>
        \A k \in 1..Len(CmpRows) :
            (TimePresent(CmpRows[k].cuopt_solve_time)
                /\ TimePresent(CmpRows[k].gurobi_solve_time))
            => LET c == Float(CmpRows[k].cuopt_solve_time)
                   g == Float(CmpRows[k].gurobi_solve_time)
               IN  /\ CmpRows[k].winner = sCuOpt <=> c.n * g.d < g.n * c.d
                   /\ CmpRows[k].winner = sGurobi <=> g.n * c.d < c.n * g.d
                   /\ CmpRows[k].winner = sTie <=> c.n * g.d = g.n * c.d

C3_Witness ==
    /\ Written
    /\ \E k \in 1..Len(CmpRows) :
          /\ CmpRows[k].winner = sGurobi
          /\ CmpRows[k].gurobi_status = sERROR
          /\ CmpRows[k].cuopt_status = IntText(GRB_OPTIMAL)
          /\ TimePresent(CmpRows[k].cuopt_solve_time)
    /\ \E k \in 1..Len(CmpRows) :
          /\ CmpRows[k].winner = sTie
          /\ TimePresent(CmpRows[k].cuopt_solve_time)
          /\ TimePresent(CmpRows[k].gurobi_solve_time)

\* C4: speedup is present iff both solve_times are present and the cuOpt
\* time is > 0; it then equals gurobi time / cuopt time; no division by
\* zero is performed.
C4_SpeedupGuarded ==
    Written =>
        \A k \in 1..Len(CmpRows) :
            LET ct == CmpRows[k].cuopt_solve_time
                gt == CmpRows[k].gurobi_solve_time
                sp == CmpRows[k].speedup
                defined == TimePresent(ct) /\ TimePresent(gt) /\ Float(ct).n > 0
            IN  /\ TimePresent(sp) <=> defined
                /\ sp # <<"i", "n", "f">>
                /\ defined =>
                     Float(sp).n * (Float(ct).n * Float(gt).d)
                        = Float(sp).d * (Float(gt).n * Float(ct).d)

C4_Witness ==
    /\ Written
    /\ \E k \in 1..Len(CmpRows) :
          /\ CmpRows[k].cuopt_solve_time = <<"1", ".", "0">>
          /\ CmpRows[k].gurobi_solve_time = <<"1", ".", "0">>
          /\ CmpRows[k].speedup = <<"1", ".", "0">>
    /\ \E k \in 1..Len(CmpRows) :
          /\ CmpRows[k].cuopt_solve_time = <<"0", ".", "0">>
          /\ TimePresent(CmpRows[k].gurobi_solve_time)
          /\ CmpRows[k].speedup = <<>>

\* the last row of a result file that carries the name
LastRow(file, name) ==
    file.rows[CHOOSE k \in 1..Len(file.rows) :
                /\ file.rows[k].model_name = name
                /\ \A j \in (k + 1)..Len(file.rows) : file.rows[j].model_name # name]

\* C6: with several rows of one model_name in a dataset, the reconciled
\* record is built from the last such row.
C6_LastOccurrenceWins ==
    Written =>
        \A k \in 1..Len(CmpRows) :
            LET c == LastRow(cuopt_csv, CmpRows[k].model_name)
                g == LastRow(gurobi_csv, CmpRows[k].model_name)
            IN  /\ CmpRows[k].cuopt_solve_time = c.solve_time
                /\ CmpRows[k].cuopt_status = c.status
                /\ CmpRows[k].cuopt_objective = c.objective
                /\ CmpRows[k].cuopt_error = c.error
                /\ CmpRows[k].gurobi_solve_time = g.solve_time
                /\ CmpRows[k].gurobi_status = g.status
                /\ CmpRows[k].gurobi_objective = g.objective
                /\ CmpRows[k].gurobi_error = g.error

OneFileMissing == cuopt_csv.exists # gurobi_csv.exists
Present == IF cuopt_csv.exists THEN cuopt_csv ELSE gurobi_csv

\* C9 as stated: with exactly one results file missing the reconciliation
\* still proceeds and outputs every problem of the other dataset as a
\* solo-only record with winner 'N/A'.
C9_ProceedsWithSoloRecords ==
    (OneFileMissing /\ compare_out # "none") =>
        /\ comparison_csv.exists
        /\ CsvNames(comparison_csv) = CsvNames(Present)
        /\ \A k \in 1..Len(CmpRows) : CmpRows[k].winner = sNA

\* C9: with exactly one results file missing, FileNotFoundError is reported
\* to the caller and ends the whole reconciliation: no comparison file is
\* written, so no record of the other solver's dataset is output.
C9_NotFoundEndsReconciliation ==
    (OneFileMissing /\ compare_out # "none") =>
        /\ compare_out = "FileNotFoundError"
        /\ comparison_csv = NoFile

C9_Witness ==
    /\ ~cuopt_csv.exists /\ gurobi_csv.exists /\ Len(gurobi_csv.rows) = 2
    /\ compare_out = "FileNotFoundError"

IsTimed(row) == row.winner \in {sCuOpt, sGurobi, sTie}

\* C10: the performance statistics cover exactly the records with winner
\* in {cuOpt, Gurobi, Tie}: the three counts sum to the size of that
\* subset and the Tie count is the number of Tie records.
C10_StatsOverTimedRecords ==
    summary_out.state = "printed" =>
        /\ summary_out.cuopt_faster + summary_out.gurobi_faster + summary_out.ties
             = Len(SelectSeq(CmpRows, IsTimed))
        /\ summary_out.ties = Len(SelectSeq(CmpRows, LAMBDA r : r.winner = sTie))
        /\ summary_out.both_solved = Len(SelectSeq(CmpRows, IsTimed))

\* C12: in every result record a producer has made, a status other than
\* Optimal (2) or TimeLimit (9) comes with an objective that is absent or
\* the "N/A" marker
C12_ObjectiveOnlyWhenSolved ==
    \A k \in 1..Len(results) :
        results[k].status \notin {PyInt(GRB_OPTIMAL), PyInt(GRB_TIME_LIMIT)}
            => results[k].objective \in {None, Str(sNA)}

\* a dataset of the aggregation is empty: a result file without rows, or a
\* reconciled file without records
EmptyDataset ==
    /\ cuopt_csv.exists /\ gurobi_csv.exists
    /\ \/ cuopt_csv.rows = <<>>
       \/ gurobi_csv.rows = <<>>
       \/ compare_out = "ok" /\ comparison_csv.rows = <<>>

Undefined(v) == v.tag = "nan"

\* C11: once the reconciliation and the report have run over an empty
\* dataset, both have completed, and every rate taken over an empty result
\* file is the undefined marker rather than a number
C11_RatesGuarded ==
    (EmptyDataset /\ summary_out.state # "none") =>
        /\ compare_out = "ok"
        /\ summary_out.state \in {"printed", "skipped"}
        /\ cuopt_csv.rows = <<>> =>
              /\ Undefined(compare_stats.cuopt_optimal)
              /\ Undefined(compare_stats.cuopt_errors)
              /\ Undefined(summary_out.cuopt_success_rate)
        /\ gurobi_csv.rows = <<>> =>
              /\ Undefined(compare_stats.gurobi_optimal)
              /\ Undefined(compare_stats.gurobi_errors)
              /\ Undefined(summary_out.gurobi_success_rate)

\* C13: a second run of the reconciliation on the same two result files
\* writes the same records in the same order as the first
C13_SameOutputOnRerun ==
    previous_csv.exists => comparison_csv = previous_csv


====
